---------------------------- MODULE Spec2Model ----------------------------
(***************************************************************************)
(* Model of crawlee/_utils/requests.py: normalize_url, compute_unique_key  *)
(* and unique_key_to_request_id.                                           *)
(*                                                                         *)
(* A Python str is a sequence of one-character strings, a bytes object a   *)
(* sequence of integers 0..255.  The three functions are pure; each        *)
(* specification draws the arguments of a call in its initial states and   *)
(* its actions perform the calls and store what they return.               *)
(***************************************************************************)
EXTENDS Integers, Sequences, FiniteSets, TLC

VARIABLES
    pc,                  \* which calls have been made
    url,                 \* normalize_url: argument url
    keep_url_fragment,   \* normalize_url: argument keep_url_fragment
    normalized,          \* outcome of normalize_url(url)
    renormalized,        \* outcome of normalize_url(normalize_url(url))
    variant,             \* a URL differing from url in letter case / parameter order
    variant_normalized,  \* outcome of normalize_url(variant)
    edits,               \* number of edits that produced variant from url
    request,             \* compute_unique_key: the arguments of the call
    call,                \* compute_unique_key(request): its locals and its result
    other,               \* a second request, differing from request in one argument
    other_call,          \* compute_unique_key(other)
    unique_key,          \* unique_key_to_request_id: argument unique_key
    request_id_length,   \* unique_key_to_request_id: argument request_id_length
    request_id           \* what unique_key_to_request_id returned

normVars == <<url, keep_url_fragment, normalized, renormalized,
              variant, variant_normalized, edits>>

keyVars == <<request, call, other, other_call>>

idVars == <<unique_key, request_id_length, request_id>>

vars == <<pc, normVars, keyVars, idVars>>

----------------------------------------------------------------------------
(* Characters and strings                                                  *)

\* The characters of the model, in code point order, and their code points.
Chars ==
    <<" ", "#", "%", "&", "(", ")", "+", "-", ".", "/", "0", "1", "2", "3",
      "4", "5", "6", "7", "8", "9", ":", "=", "?", "A", "B", "C", "D", "E", "F", "G",
      "H", "I", "J", "K", "L", "M", "N", "O", "P", "Q", "R", "S", "T", "U",
      "V", "W", "X", "Y", "Z", "[", "]", "_", "a", "b", "c", "d", "e", "f",
      "g", "h", "i", "j", "k", "l", "m", "n", "o", "p", "q", "r", "s", "t",
      "u", "v", "w", "x", "y", "z", "|", "~">>

Codes ==
    <<32, 35, 37, 38, 40, 41, 43, 45, 46, 47, 48, 49, 50, 51, 52, 53,
      54, 55, 56, 57, 58, 61, 63, 65, 66, 67, 68, 69, 70, 71,
      72, 73, 74, 75, 76, 77, 78, 79, 80, 81, 82, 83, 84, 85,
      86, 87, 88, 89, 90, 91, 93, 95, 97, 98, 99, 100, 101, 102,
      103, 104, 105, 106, 107, 108, 109, 110, 111, 112, 113, 114, 115, 116,
      117, 118, 119, 120, 121, 122, 124, 126>>

CharSet == {Chars[i] : i \in 1..Len(Chars)}

\* Python's ord() and chr() on the characters of the model.
ord == [c \in CharSet |-> Codes[CHOOSE i \in 1..Len(Chars) : Chars[i] = c]]

CodeSet == {Codes[i] : i \in 1..Len(Codes)}

chr == [n \in CodeSet |-> Chars[CHOOSE i \in 1..Len(Codes) : Codes[i] = n]]

\* str.lower() and str.upper() on one character, then on a string.
lower_char == [c \in CharSet |->
    IF ord[c] >= 65 /\ ord[c] <= 90 THEN chr[ord[c] + 32] ELSE c]

upper_char == [c \in CharSet |->
    IF ord[c] >= 97 /\ ord[c] <= 122 THEN chr[ord[c] - 32] ELSE c]

lower(s) == [i \in 1..Len(s) |-> lower_char[s[i]]]

upper(s) == [i \in 1..Len(s) |-> upper_char[s[i]]]

isalpha(c) == (ord[c] >= 65 /\ ord[c] <= 90) \/ (ord[c] >= 97 /\ ord[c] <= 122)

isdigit(c) == ord[c] >= 48 /\ ord[c] <= 57

\* c in s
Contains(s, c) == \E i \in 1..Len(s) : s[i] = c

\* s.find(c), 1-based; 0 when c does not occur (Python: -1).
find(s, c) ==
    IF Contains(s, c)
    THEN CHOOSE i \in 1..Len(s) : s[i] = c /\ \A j \in 1..(i - 1) : s[j] # c
    ELSE 0

\* s[i:] for a 1-based i
From(s, i) == SubSeq(s, i, Len(s))

\* s.split(c)
RECURSIVE split(_, _)
split(s, c) ==
    LET i == find(s, c) IN
    IF i = 0 THEN <<s>>
    ELSE <<SubSeq(s, 1, i - 1)>> \o split(From(s, i + 1), c)

\* s.split(c, 1)
split1(s, c) ==
    LET i == find(s, c) IN
    IF i = 0 THEN <<s>> ELSE <<SubSeq(s, 1, i - 1), From(s, i + 1)>>

\* sep.join(parts)
RECURSIVE join(_, _)
join(parts, sep) ==
    IF parts = <<>> THEN <<>>
    ELSE IF Len(parts) = 1 THEN parts[1]
    ELSE parts[1] \o sep \o join(Tail(parts), sep)

\* s.startswith(p)
startswith(s, p) == Len(s) >= Len(p) /\ SubSeq(s, 1, Len(p)) = p

\* s.endswith(p)
endswith(s, p) ==
    Len(s) >= Len(p) /\ SubSeq(s, Len(s) - Len(p) + 1, Len(s)) = p

\* s.lstrip(c) and s.rstrip(c): every leading / trailing c is removed.
RECURSIVE lstrip(_, _)
lstrip(s, c) ==
    IF s # <<>> /\ s[1] = c THEN lstrip(Tail(s), c) ELSE s

RECURSIVE rstrip(_, _)
rstrip(s, c) ==
    IF s # <<>> /\ s[Len(s)] = c THEN rstrip(SubSeq(s, 1, Len(s) - 1), c) ELSE s

\* url.strip(): the only whitespace character of the model is the space.
strip(s) == rstrip(lstrip(s, " "), " ")

\* Comparison of two strings as Python compares str: by code points.
RECURSIVE str_less(_, _)
str_less(a, b) ==
    IF b = <<>> THEN FALSE
    ELSE IF a = <<>> THEN TRUE
    ELSE IF a[1] # b[1] THEN ord[a[1]] < ord[b[1]]
    ELSE str_less(Tail(a), Tail(b))

\* sorted(keys) for a sequence of distinct strings.
RECURSIVE insert_sorted(_, _)
insert_sorted(k, ks) ==
    IF ks = <<>> THEN <<k>>
    ELSE IF str_less(k, ks[1]) THEN <<k>> \o ks
    ELSE <<ks[1]>> \o insert_sorted(k, Tail(ks))

RECURSIVE sorted(_)
sorted(ks) ==
    IF ks = <<>> THEN <<>> ELSE insert_sorted(ks[1], sorted(Tail(ks)))

----------------------------------------------------------------------------
(* urllib.parse as used by normalize_url                                   *)

HexDigits ==
    <<"0", "1", "2", "3", "4", "5", "6", "7", "8", "9", "A", "B", "C", "D", "E", "F">>

\* The value of a hexadecimal digit of either case; -1 for any other character.
hex_value(c) ==
    IF \E i \in 1..16 : HexDigits[i] = upper_char[c]
    THEN (CHOOSE i \in 1..16 : HexDigits[i] = upper_char[c]) - 1
    ELSE -1

\* quote_plus: letters, digits and "_.-~" are kept, a space becomes "+",
\* every other character becomes "%XX" with upper-case hexadecimal digits.
quote_char(c) ==
    IF isalpha(c) \/ isdigit(c) \/ c \in {"_", ".", "-", "~"} THEN <<c>>
    ELSE IF c = " " THEN <<"+">>
    ELSE <<"%", HexDigits[(ord[c] \div 16) + 1], HexDigits[(ord[c] % 16) + 1]>>

RECURSIVE quote_plus(_)
quote_plus(s) ==
    IF s = <<>> THEN <<>> ELSE quote_char(s[1]) \o quote_plus(Tail(s))

\* unquote after "+" was replaced by a space: "%XX" becomes the character with
\* that code.  An escape whose code is no character of the model is left as it
\* is (no input of the model holds one).
RECURSIVE unquote_plus(_)
unquote_plus(s) ==
    IF s = <<>> THEN <<>>
    ELSE IF s[1] = "+" THEN <<" ">> \o unquote_plus(Tail(s))
    ELSE IF /\ s[1] = "%"
            /\ Len(s) >= 3
            /\ hex_value(s[2]) >= 0
            /\ hex_value(s[3]) >= 0
            /\ (16 * hex_value(s[2]) + hex_value(s[3])) \in CodeSet
         THEN <<chr[16 * hex_value(s[2]) + hex_value(s[3])]>>
                  \o unquote_plus(From(s, 4))
    ELSE <<s[1]>> \o unquote_plus(Tail(s))

\* parse_qsl(qs): the fields between "&"; an empty field, a field without "="
\* and a field with an empty value are dropped (keep_blank_values is false).
RECURSIVE parse_fields(_)
parse_fields(fields) ==
    IF fields = <<>> THEN <<>>
    ELSE LET nv == split1(fields[1], "=") IN
         (IF Len(nv) = 2 /\ nv[2] # <<>>
          THEN <<(<<unquote_plus(nv[1]), unquote_plus(nv[2])>>)>>
          ELSE <<>>) \o parse_fields(Tail(fields))

parse_qsl(qs) == IF qs = <<>> THEN <<>> ELSE parse_fields(split(qs, "&"))

\* dict(pairs): a mapping in insertion order; a repeated key keeps its first
\* position and takes the last value.
RECURSIVE dict(_)
dict(pairs) ==
    IF pairs = <<>> THEN <<>>
    ELSE LET front == dict(SubSeq(pairs, 1, Len(pairs) - 1))
             last == pairs[Len(pairs)]
         IN IF \E i \in 1..Len(front) : front[i][1] = last[1]
            THEN [i \in 1..Len(front) |->
                     IF front[i][1] = last[1] THEN last ELSE front[i]]
            ELSE Append(front, last)

\* d.keys() and d[k]
keys(d) == [i \in 1..Len(d) |-> d[i][1]]

getitem(d, k) == d[CHOOSE i \in 1..Len(d) : d[i][1] = k][2]

\* urlencode(pairs)
urlencode(pairs) ==
    join([i \in 1..Len(pairs) |->
             quote_plus(pairs[i][1]) \o <<"=">> \o quote_plus(pairs[i][2])],
         <<"&">>)

\* The schemes urllib.parse lists in uses_netloc that the model's inputs use.
uses_netloc == {<<"h", "t", "t", "p">>}

scheme_char(c) == isalpha(c) \/ isdigit(c) \/ c \in {"+", "-", "."}

\* The bracketed hosts ipaddress accepts as IPv6, among those the model's
\* inputs hold.
IPv6Hosts == {<<":", ":", "1">>}

\* The first of "/", "?", "#" in s (1-based), Len(s) + 1 when there is none.
netloc_end(s) ==
    LET hits == {i \in 1..Len(s) : s[i] \in {"/", "?", "#"}} IN
    IF hits = {} THEN Len(s) + 1
    ELSE CHOOSE i \in hits : \A j \in hits : i <= j

\* scheme, url = url[:i].lower(), url[i+1:] when the text before the first
\* ":" is a scheme: it starts with a letter and holds only scheme characters.
split_scheme(u) ==
    LET i == find(u, ":") IN
    IF i > 1 /\ isalpha(u[1]) /\ \A j \in 1..(i - 1) : scheme_char(u[j])
    THEN [scheme |-> lower(SubSeq(u, 1, i - 1)), rest |-> From(u, i + 1)]
    ELSE [scheme |-> <<>>, rest |-> u]

\* if url[:2] == '//': netloc, url = _splitnetloc(url, 2)
split_netloc(u) ==
    IF Len(u) >= 2 /\ u[1] = "/" /\ u[2] = "/"
    THEN [netloc |-> SubSeq(u, 3, 1 + netloc_end(From(u, 3))),
          rest |-> From(u, 2 + netloc_end(From(u, 3)))]
    ELSE [netloc |-> <<>>, rest |-> u]

\* The netloc urlsplit raises ValueError for: one bracket without the other,
\* or a bracketed host that is no IPv6 address.
bad_netloc(netloc) ==
    LET open == Contains(netloc, "[")
        close == Contains(netloc, "]")
        after == split1(netloc, "[")
    IN  \/ open /\ ~close
        \/ close /\ ~open
        \/ open /\ close /\ split1(after[Len(after)], "]")[1] \notin IPv6Hosts

\* url, fragment = url.split('#', 1); url, query = url.split('?', 1)
split_tail(u) ==
    LET hashed == split1(u, "#")
        asked == split1(hashed[1], "?")
    IN  [path |-> asked[1],
         query |-> IF Len(asked) = 2 THEN asked[2] ELSE <<>>,
         fragment |-> IF Len(hashed) = 2 THEN hashed[2] ELSE <<>>]

\* LET x == v IN Body(x), with v evaluated once.
With(v, Body(_)) == CHOOSE r \in {Body(x) : x \in {v}} : TRUE

\* urlparse(url): raised is TRUE where urlsplit raises ValueError.  No input
\* of the model holds ";", so params is always empty.
urlparse(raw) ==
    With(split_scheme(lstrip(raw, " ")), LAMBDA s :
    With(split_netloc(s.rest), LAMBDA n :
    With(split_tail(n.rest), LAMBDA t :
        [raised |-> bad_netloc(n.netloc), scheme |-> s.scheme,
         netloc |-> n.netloc, path |-> t.path, params |-> <<>>,
         query |-> t.query, fragment |-> t.fragment])))

\* ParseResult.geturl(): urlunparse, that is urlunsplit.
geturl(p) ==
    LET u0 == IF p.netloc # <<>>
                 \/ (/\ p.scheme # <<>>
                     /\ p.scheme \in uses_netloc
                     /\ ~startswith(p.path, <<"/", "/">>))
              THEN <<"/", "/">> \o p.netloc
                       \o (IF p.path # <<>> /\ p.path[1] # "/"
                           THEN <<"/">> \o p.path ELSE p.path)
              ELSE p.path
        u1 == IF p.scheme # <<>> THEN p.scheme \o <<":">> \o u0 ELSE u0
        u2 == IF p.query # <<>> THEN u1 \o <<"?">> \o p.query ELSE u1
    IN  IF p.fragment # <<>> THEN u2 \o <<"#">> \o p.fragment ELSE u2

----------------------------------------------------------------------------
(* normalize_url                                                           *)

\* What a call gives: the returned string, or that it raised.
Returned(s) == [raised |-> FALSE, value |-> s]

Raised == [raised |-> TRUE, value |-> <<>>]

NotCalled == [raised |-> FALSE, value |-> <<"?">>]

utm_prefix == <<"u", "t", "m", "_">>

\* {k: v for k, v in search_params.items() if not k.startswith('utm_')}
remove_utm(search_params) ==
    SelectSeq(search_params, LAMBDA kv : ~startswith(kv[1], utm_prefix))

\* urlencode([(k, search_params[k]) for k in sorted(search_params.keys())])
sorted_query(search_params) ==
    With(sorted(keys(search_params)), LAMBDA sorted_keys :
        urlencode([i \in 1..Len(sorted_keys) |->
                      <<sorted_keys[i], getitem(search_params, sorted_keys[i])>>]))

\* A slip of strip_path: only one trailing slash is removed.
strip_one_slash(path) ==
    IF path # <<>> /\ path[Len(path)] = "/"
    THEN SubSeq(path, 1, Len(path) - 1) ELSE path

\* parsed_url.path.rstrip('/')
strip_path(path) == rstrip(path, "/")

\* parsed_url._replace(query=..., path=...).geturl().lower()
rebuild(parsed_url, query) ==
    With([parsed_url EXCEPT !.query = query,
                            !.path = strip_path(parsed_url.path)],
         LAMBDA replaced : lower(geturl(replaced)))

\* A slip of retain_fragment: the test of keep_url_fragment is inverted.
retain_fragment_inverted(new_url, keep) ==
    IF keep THEN split(new_url, "#")[1] ELSE new_url

\* if not keep_url_fragment: new_url = new_url.split('#')[0]
retain_fragment(new_url, keep) ==
    IF ~keep THEN split(new_url, "#")[1] ELSE new_url

normalize_url(u, keep) ==
    With(urlparse(strip(u)), LAMBDA parsed_url :
        IF parsed_url.raised THEN Raised
        ELSE With(remove_utm(dict(parse_qsl(parsed_url.query))),
                  LAMBDA search_params :
             With(sorted_query(search_params), LAMBDA query :
             With(rebuild(parsed_url, query), LAMBDA new_url :
                 Returned(retain_fragment(new_url, keep))))))

----------------------------------------------------------------------------
(* The arguments of the calls                                              *)

MaxParams == 2

Schemes == {<<>>, <<"h", "t", "t", "p", ":">>, <<"H", "T", "T", "P", ":">>}

Authorities ==
    {<<>>, <<"/", "/", "x">>, <<"/", "/", "X", ".", "p">>, <<"/", "/", "[", "x">>}

Paths ==
    {<<>>, <<"/">>, <<"/", "p">>, <<"/", "P", "/">>, <<"/", "p", "/", "/">>,
     <<"q", "/">>}

ParamPool ==
    {<<"a", "=", "1">>, <<"a", "=", "2">>, <<"B", "=", "2">>,
     <<"u", "t", "m", "_", "s", "=", "1">>, <<"U", "T", "M", "_", "s", "=", "1">>,
     <<"c", "=">>}

Fragments == {<<>>, <<"#">>, <<"#", "f">>, <<"#", "F", "/">>}

ParamLists == UNION {[1..n -> ParamPool] : n \in 0..MaxParams}

Queries == {<<>>} \cup {<<"?">> \o join(ps, <<"&">>) : ps \in ParamLists}

Urls ==
    {s \o a \o p \o q \o f :
        s \in Schemes, a \in Authorities, p \in Paths, q \in Queries, f \in Fragments}



----------------------------------------------------------------------------
(* Calls of normalize_url                                                  *)

NoKeyCalls ==
    /\ request = <<>>
    /\ call = <<>>
    /\ other = <<>>
    /\ other_call = <<>>

NoIdCalls ==
    /\ unique_key = <<>>
    /\ request_id_length = 0
    /\ request_id = <<>>

InitNormalize ==
    /\ pc = "start"
    /\ url \in Urls
    /\ keep_url_fragment \in BOOLEAN
    /\ normalized = NotCalled
    /\ renormalized = NotCalled
    /\ variant = <<>>
    /\ variant_normalized = NotCalled
    /\ edits = 0
    /\ NoKeyCalls
    /\ NoIdCalls

\* normalize_url(url, keep_url_fragment=keep_url_fragment)
Normalize ==
    /\ pc = "start"
    /\ normalized' = normalize_url(url, keep_url_fragment)
    /\ pc' = "normalized"
    /\ UNCHANGED <<url, keep_url_fragment, renormalized, variant,
                   variant_normalized, edits, keyVars, idVars>>

\* normalize_url applied to the string the first call returned
NormalizeAgain ==
    /\ pc = "normalized"
    /\ ~normalized.raised
    /\ renormalized' = normalize_url(normalized.value, keep_url_fragment)
    /\ pc' = "renormalized"
    /\ UNCHANGED <<url, keep_url_fragment, normalized, variant,
                   variant_normalized, edits, keyVars, idVars>>

NextNormalize == Normalize \/ NormalizeAgain

SpecNormalize == InitNormalize /\ [][NextNormalize]_vars

----------------------------------------------------------------------------
(* Claims about normalize_url                                              *)

\* The components of the call's argument and of its result, as urlparse
\* splits them.
ArgumentParts == urlparse(strip(url))

ResultParts == urlparse(normalized.value)

HasReturned == pc \in {"normalized", "renormalized"} /\ ~normalized.raised

\* The number of "/" a path ends in.
TrailingSlashes(path) ==
    Cardinality({i \in 1..Len(path) :
                    \A j \in i..Len(path) : path[j] = "/"})

\* C1: normalize_url is idempotent: normalizing the result of normalize_url
\* gives that result again.
C1_Idempotent ==
    pc = "renormalized" =>
        /\ ~renormalized.raised
        /\ renormalized.value = normalized.value

\* The "&"-separated fields of a query string, and the key of a field.
Fields(query) == IF query = <<>> THEN <<>> ELSE split(query, "&")

FieldKey(field) == split1(field, "=")[1]

\* The field a parameter (k, v) becomes in the lower-cased result.
FieldOf(kv) == lower(quote_plus(kv[1]) \o <<"=">> \o quote_plus(kv[2]))

\* C3: the query string of the result holds no parameter whose key starts
\* with "utm_", and every parameter of the argument whose key does not start
\* with "utm_" is kept, with the value of its last occurrence.
C3_TrackingRemoved ==
    HasReturned =>
        LET out == Fields(ResultParts.query)
            given == dict(parse_qsl(ArgumentParts.query))
        IN  /\ \A i \in 1..Len(out) : ~startswith(FieldKey(out[i]), utm_prefix)
            /\ \A i \in 1..Len(given) :
                   ~startswith(given[i][1], utm_prefix) =>
                       \E j \in 1..Len(out) : out[j] = FieldOf(given[i])

\* C4 as stated: a path ending in n >= 1 slashes comes out with n - 1
\* trailing slashes.
C4_OneSlashStripped ==
    (HasReturned /\ TrailingSlashes(ArgumentParts.path) >= 1) =>
        TrailingSlashes(ResultParts.path)
            = TrailingSlashes(ArgumentParts.path) - 1

\* The path without the slashes it ends in.
WithoutTrailingSlashes(path) ==
    SubSeq(path, 1, Len(path) - TrailingSlashes(path))

\* C4 as amended: every trailing "/" of the path is stripped: the path of the
\* result ends in no slash, and for a URL with an authority it is the
\* lower-cased path of the argument without the slashes that one ends in.
C4_AllSlashesStripped ==
    HasReturned =>
        /\ TrailingSlashes(ResultParts.path) = 0
        /\ ArgumentParts.netloc # <<>> =>
               ResultParts.path = lower(WithoutTrailingSlashes(ArgumentParts.path))

\* A call whose argument's path ends in two slashes has returned.
C4_Witness ==
    /\ HasReturned
    /\ TrailingSlashes(ArgumentParts.path) >= 2

\* The fragment of a URL: what follows its first "#".
FragmentOf(u) ==
    IF Contains(u, "#") THEN From(u, find(u, "#") + 1) ELSE <<>>

\* C9: without keep_url_fragment the result holds no "#"; with it, and a
\* non-empty fragment in the argument, the result ends with "#" and the
\* lower-cased fragment.
C9_FragmentHandling ==
    HasReturned =>
        /\ ~keep_url_fragment => ~Contains(normalized.value, "#")
        /\ (keep_url_fragment /\ FragmentOf(strip(url)) # <<>>) =>
               endswith(normalized.value,
                        <<"#">> \o lower(FragmentOf(strip(url))))

\* A call that keeps a fragment holding an upper-case letter has returned.
C9_Witness ==
    /\ HasReturned
    /\ keep_url_fragment
    /\ FragmentOf(strip(url)) # <<>>
    /\ lower(FragmentOf(strip(url))) # FragmentOf(strip(url))

----------------------------------------------------------------------------
(* Two URLs that differ in letter case and parameter order                 *)

MaxEdits == 2

swapcase(c) == IF lower_char[c] = c THEN upper_char[c] ELSE lower_char[c]

\* The query of a raw URL: between its first "?" and its first "#".
RawHead(u) == split1(u, "#")[1]

RawQuery(u) ==
    IF Contains(RawHead(u), "?") THEN split1(RawHead(u), "?")[2] ELSE <<>>

\* The keys of the query's fields differ pairwise, letter case ignored.
DistinctKeys(u) ==
    LET fs == Fields(RawQuery(u)) IN
    \A i, j \in 1..Len(fs) :
        i # j => lower(FieldKey(fs[i])) # lower(FieldKey(fs[j]))

\* u with the fields i and i + 1 of its query exchanged.
SwapFields(u, i) ==
    LET fs == Fields(RawQuery(u))
        swapped == [k \in 1..Len(fs) |->
                       IF k = i THEN fs[i + 1]
                       ELSE IF k = i + 1 THEN fs[i] ELSE fs[k]]
    IN  split1(RawHead(u), "?")[1] \o <<"?">> \o join(swapped, <<"&">>)
            \o From(u, Len(RawHead(u)) + 1)

VariantUrls ==
    {u \in {s \o <<"/", "/", "X", ".", "p">> \o p \o q \o f :
               s \in Schemes \ {<<>>},
               p \in {<<"/", "p">>, <<"/", "P", "/">>},
               q \in Queries,
               f \in {<<"#", "F", "/">>}} : DistinctKeys(u)}

InitVariant ==
    /\ pc = "start"
    /\ url \in VariantUrls
    /\ keep_url_fragment \in BOOLEAN
    /\ normalized = NotCalled
    /\ renormalized = NotCalled
    /\ variant = url
    /\ variant_normalized = NotCalled
    /\ edits = 0
    /\ NoKeyCalls
    /\ NoIdCalls

\* The letter at position i of the variant changes its case.
ChangeCase(i) ==
    /\ pc = "start"
    /\ edits < MaxEdits
    /\ i \in 1..Len(variant)
    /\ isalpha(variant[i])
    /\ variant' = [variant EXCEPT ![i] = swapcase(variant[i])]
    /\ edits' = edits + 1
    /\ UNCHANGED <<pc, url, keep_url_fragment, normalized, renormalized,
                   variant_normalized, keyVars, idVars>>

\* Two neighbouring query parameters of the variant change places.
SwapParams(i) ==
    /\ pc = "start"
    /\ edits < MaxEdits
    /\ i \in 1..(Len(Fields(RawQuery(variant))) - 1)
    /\ variant' = SwapFields(variant, i)
    /\ edits' = edits + 1
    /\ UNCHANGED <<pc, url, keep_url_fragment, normalized, renormalized,
                   variant_normalized, keyVars, idVars>>

\* normalize_url(url) and normalize_url(variant)
NormalizeBoth ==
    /\ pc = "start"
    /\ normalized' = normalize_url(url, keep_url_fragment)
    /\ variant_normalized' = normalize_url(variant, keep_url_fragment)
    /\ pc' = "compared"
    /\ UNCHANGED <<url, keep_url_fragment, renormalized, variant, edits,
                   keyVars, idVars>>

NextVariant ==
    \/ \E i \in 1..Len(variant) : ChangeCase(i)
    \/ \E i \in 1..MaxParams : SwapParams(i)
    \/ NormalizeBoth

SpecVariant == InitVariant /\ [][NextVariant]_vars

\* C2: two URLs that differ only in the case of their letters and in the
\* order of their query parameters (of distinct keys) normalize to the same
\* string.
C2_CaseOrderInsensitive ==
    pc = "compared" =>
        /\ normalized.raised = variant_normalized.raised
        /\ normalized.value = variant_normalized.value

----------------------------------------------------------------------------
(* compute_unique_key                                                      *)

\* A payload is None, a str (held as its code points) or a bytes object.
NoPayload == [type |-> "None", data |-> <<>>]

StrPayload(s) == [type |-> "str", data |-> s]

BytesPayload(b) == [type |-> "bytes", data |-> b]

\* Optional[dict[str, str]] and Optional[list[str]]: None, or a value.
None == [some |-> FALSE, value |-> <<>>]

Some(v) == [some |-> TRUE, value |-> v]

\* str.encode('utf-8') of one code point below 2048, then of a str.
encode_code_point(cp) ==
    IF cp < 128 THEN <<cp>>
    ELSE <<192 + (cp \div 64), 128 + (cp % 64)>>

RECURSIVE encode_utf8(_)
encode_utf8(s) ==
    IF s = <<>> THEN <<>> ELSE encode_code_point(s[1]) \o encode_utf8(Tail(s))

\* The two upper-case hexadecimal digits of a byte.
hex_byte(b) == <<HexDigits[(b \div 16) + 1], HexDigits[(b % 16) + 1]>>

\* compute_short_hash (crawlee._utils.crypto): a deterministic digest of fixed
\* length over letters and digits.  Here: ten hexadecimal digits, of the
\* length of the data and of its first four bytes, so that data of at most
\* four bytes have different digests.
compute_short_hash(data) ==
    hex_byte(Len(data) % 256)
        \o hex_byte(IF Len(data) >= 1 THEN data[1] ELSE 0)
        \o hex_byte(IF Len(data) >= 2 THEN data[2] ELSE 0)
        \o hex_byte(IF Len(data) >= 3 THEN data[3] ELSE 0)
        \o hex_byte(IF Len(data) >= 4 THEN data[4] ELSE 0)

\* A slip of normalize_or_raw: the fallback is the lower-cased URL.
normalize_or_lowered(u, keep) ==
    With(normalize_url(u, keep), LAMBDA outcome :
        IF outcome.raised THEN lower(u) ELSE outcome.value)

\* try: normalized_url = normalize_url(url, keep_url_fragment=...)
\* except Exception: normalized_url = url
normalize_or_raw(u, keep) ==
    With(normalize_url(u, keep), LAMBDA outcome :
        IF outcome.raised THEN u ELSE outcome.value)

\* if isinstance(payload, str): payload.encode('utf-8') else: payload
payload_in_bytes(payload) ==
    IF payload.type = "str" THEN encode_utf8(payload.data) ELSE payload.data

\* A slip of payload_prefix: the payload hash is left out of the key.
payload_prefix_without_hash(method, payload) ==
    upper(method) \o <<"(", ")", ":">>

\* f'{normalized_method}({payload_hash}):' with normalized_method = method.upper()
payload_prefix(method, payload) ==
    upper(method) \o <<"(">> \o compute_short_hash(payload_in_bytes(payload))
        \o <<")", ":">>

\* A slip of make_extended_key: the method is not upper-cased and is part of
\* the key whether a payload is hashed or not.
extended_key_with_method(method, payload, use_extended_unique_key, normalized_url) ==
    IF use_extended_unique_key /\ payload.data # <<>>
    THEN method \o <<"(">> \o compute_short_hash(payload_in_bytes(payload))
             \o <<")", ":">> \o normalized_url
    ELSE method \o <<":">> \o normalized_url

\* if use_extended_unique_key and payload: ... else: extended_key = normalized_url
make_extended_key(method, payload, use_extended_unique_key, normalized_url) ==
    IF use_extended_unique_key /\ payload.data # <<>>
    THEN payload_prefix(method, payload) \o normalized_url
    ELSE normalized_url

\* [f'{header}:{headers[header]}' for header in whitelisted_headers
\*  if header in headers]
header_parts(headers, whitelisted_headers) ==
    LET present == SelectSeq(whitelisted_headers,
                             LAMBDA h : h \in DOMAIN headers)
    IN  [i \in 1..Len(present) |-> present[i] \o <<":">> \o headers[present[i]]]

\* if headers and whitelisted_headers: return f'{extended_key}|{header_part}'
\* return extended_key
with_headers(extended_key, headers, whitelisted_headers) ==
    IF /\ headers.some
       /\ DOMAIN headers.value # {}
       /\ whitelisted_headers.some
       /\ whitelisted_headers.value # <<>>
    THEN extended_key \o <<"|">>
             \o join(header_parts(headers.value, whitelisted_headers.value), <<"|">>)
    ELSE extended_key

\* compute_unique_key(**r): its locals normalized_url and extended_key, and the
\* key it returns.
compute_unique_key(r) ==
    With(normalize_or_raw(r.url, r.keep_url_fragment), LAMBDA normalized_url :
    With(make_extended_key(r.method, r.payload, r.use_extended_unique_key,
                           normalized_url), LAMBDA extended_key :
        [normalized_url |-> normalized_url,
         extended_key |-> extended_key,
         key |-> with_headers(extended_key, r.headers, r.whitelisted_headers)]))

----------------------------------------------------------------------------
(* Calls of compute_unique_key                                             *)

MaxPayloadLen == 1

KeyUrls ==
    {<<"H", "T", "T", "P", ":", "/", "/", "X", ".", "p", "/", "P", "/", "?",
       "b", "=", "2", "#", "F">>,
     <<"H", "T", "T", "P", ":", "/", "/", "[", "X", "/", "P">>}

Methods == {<<"G", "E", "T">>, <<"p", "o", "s", "t">>, <<"P", "O", "S", "T">>}

\* The code points of "a" and of e with an acute accent; the byte of "a" and
\* the two bytes of the UTF-8 encoding of the accented e.
StrCodePoints == {97, 233}

ByteValues == {97, 195, 169}

SeqsUpTo(S, n) == UNION {[1..k -> S] : k \in 0..n}

Payloads ==
    {NoPayload}
        \cup {StrPayload(s) : s \in SeqsUpTo(StrCodePoints, MaxPayloadLen)}
        \cup {BytesPayload(b) : b \in SeqsUpTo(ByteValues, MaxPayloadLen)}

Auth == <<"A", "u", "t", "h">>

Accept == <<"A", "c", "c", "e", "p", "t">>

XId == <<"X", "-", "I", "d">>

Tok1 == <<"t", "o", "k", "1">>

Tok2 == <<"t", "o", "k", "2">>

HeaderMaps ==
    {None, Some(<<>>), Some(Auth :> Tok1), Some(Auth :> Tok2), Some(XId :> Tok1),
     Some((Accept :> Tok2) @@ (Auth :> Tok1))}

Whitelists == {None, Some(<<>>), Some(<<Auth>>), Some(<<Auth, Accept>>)}

Requests ==
    [url : KeyUrls, method : Methods, payload : Payloads,
     keep_url_fragment : BOOLEAN, use_extended_unique_key : BOOLEAN,
     headers : HeaderMaps, whitelisted_headers : Whitelists]

NoCall == [normalized_url |-> <<>>, extended_key |-> <<>>, key |-> <<>>]

InitKey ==
    /\ pc = "start"
    /\ request \in Requests
    /\ other = request
    /\ call = NoCall
    /\ other_call = NoCall
    /\ url = <<>>
    /\ keep_url_fragment = FALSE
    /\ normalized = NotCalled
    /\ renormalized = NotCalled
    /\ variant = <<>>
    /\ variant_normalized = NotCalled
    /\ edits = 0
    /\ NoIdCalls

\* compute_unique_key(**request)
ComputeUniqueKey ==
    /\ pc = "start"
    /\ call' = compute_unique_key(request)
    /\ pc' = "computed"
    /\ UNCHANGED <<request, other, other_call, normVars, idVars>>

\* a second call, with another method
WithMethod(m) ==
    /\ pc = "computed"
    /\ other' = [request EXCEPT !.method = m]
    /\ other_call' = compute_unique_key(other')
    /\ pc' = "method varied"
    /\ UNCHANGED <<request, call, normVars, idVars>>

\* a second call, with another payload
WithPayload(p) ==
    /\ pc = "computed"
    /\ other' = [request EXCEPT !.payload = p]
    /\ other_call' = compute_unique_key(other')
    /\ pc' = "payload varied"
    /\ UNCHANGED <<request, call, normVars, idVars>>

\* a second call, with other headers
WithHeaders(h) ==
    /\ pc = "computed"
    /\ other' = [request EXCEPT !.headers = h]
    /\ other_call' = compute_unique_key(other')
    /\ pc' = "headers varied"
    /\ UNCHANGED <<request, call, normVars, idVars>>

NextKey ==
    \/ ComputeUniqueKey
    \/ \E m \in Methods : WithMethod(m)
    \/ \E p \in Payloads : WithPayload(p)
    \/ \E h \in HeaderMaps : WithHeaders(h)

SpecKey == InitKey /\ [][NextKey]_vars

----------------------------------------------------------------------------
(* Claims about compute_unique_key                                         *)

KeyComputed == pc # "start"

UrlRaises(r) == normalize_url(r.url, r.keep_url_fragment).raised

HasPayload(r) == r.payload.type # "None" /\ r.payload.data # <<>>

\* The bytes of a payload: of a str its UTF-8 encoding, of None no bytes.
PayloadBytes(p) == IF p.type = "str" THEN encode_utf8(p.data) ELSE p.data

\* The key base the specification gives for a request and a normalized URL.
ExpectedKeyBase(r, normalized_url) ==
    IF r.use_extended_unique_key /\ HasPayload(r)
    THEN upper(r.method) \o <<"(">> \o compute_short_hash(PayloadBytes(r.payload))
             \o <<")", ":">> \o normalized_url
    ELSE normalized_url

\* Whether a header map holds a name, and the header segment the specification
\* gives for a request.
Holds(headers, name) == headers.some /\ name \in DOMAIN headers.value

RECURSIVE ExpectedParts(_, _)
ExpectedParts(headers, names) ==
    IF names = <<>> THEN <<>>
    ELSE (IF Holds(headers, names[1])
          THEN <<"|">> \o names[1] \o <<":">> \o headers.value[names[1]]
          ELSE <<>>) \o ExpectedParts(headers, Tail(names))

ExpectedHeaderSegment(r) ==
    IF /\ r.headers.some /\ DOMAIN r.headers.value # {}
       /\ r.whitelisted_headers.some /\ r.whitelisted_headers.value # <<>>
    THEN IF ExpectedParts(r.headers, r.whitelisted_headers.value) = <<>>
         THEN <<"|">>
         ELSE ExpectedParts(r.headers, r.whitelisted_headers.value)
    ELSE <<>>

\* C5: when normalize_url raises for the url, compute_unique_key still returns
\* a key: the raw url stands in for the normalized URL, and the payload prefix
\* and the header segment are built as for any other url.
C5_FallbackToRawUrl ==
    (KeyComputed /\ UrlRaises(request)) =>
        /\ call.normalized_url = request.url
        /\ call.key = ExpectedKeyBase(request, request.url)
                          \o ExpectedHeaderSegment(request)

\* A key was computed for a url normalize_url raises for, with a payload
\* prefix and a header segment.
C5_Witness ==
    /\ KeyComputed
    /\ UrlRaises(request)
    /\ request.use_extended_unique_key
    /\ HasPayload(request)
    /\ ExpectedHeaderSegment(request) # <<>>

\* C10: without use_extended_unique_key, or without a payload, the key base
\* is the normalized URL alone, and two requests that differ only in the
\* method have the same key; otherwise the key base is the upper-cased method,
\* "(", the short hash of the payload bytes, "):" and the normalized URL, the
\* same for every casing of the method.
C10_KeyBase ==
    KeyComputed =>
        /\ ~UrlRaises(request) =>
               call.normalized_url
                   = normalize_url(request.url, request.keep_url_fragment).value
        /\ call.extended_key = ExpectedKeyBase(request, call.normalized_url)
        /\ (pc = "method varied"
                /\ ~(request.use_extended_unique_key /\ HasPayload(request))) =>
               other_call.key = call.key
        /\ (pc = "method varied" /\ upper(other.method) = upper(request.method)) =>
               other_call.key = call.key

\* Two requests without a hashed payload that differ in the method were keyed.
C10_Witness ==
    /\ pc = "method varied"
    /\ ~(request.use_extended_unique_key /\ HasPayload(request))
    /\ upper(other.method) # upper(request.method)

\* Python's payloadA != payloadB: a str and a bytes object are never equal.
SamePayload(p, q) == p.type = q.type /\ p.data = q.data

\* C7 as stated: with use_extended_unique_key, two requests that differ only
\* in the payload have different keys, whatever the two payloads are.
C7_AnyPayloadsDiffer ==
    (pc = "payload varied"
        /\ request.use_extended_unique_key
        /\ ~SamePayload(request.payload, other.payload)) =>
        other_call.key # call.key

\* C7 as amended: with use_extended_unique_key, two requests that differ only
\* in the payload have the same key exactly when the two payloads have the
\* same bytes (a str taken as its UTF-8 encoding, None as no bytes).
C7_PayloadBytesDecide ==
    (pc = "payload varied" /\ request.use_extended_unique_key) =>
        (other_call.key = call.key
            <=> PayloadBytes(other.payload) = PayloadBytes(request.payload))

\* Two requests with different non-empty payload bytes were keyed.
C7_Witness ==
    /\ pc = "payload varied"
    /\ request.use_extended_unique_key
    /\ HasPayload(request)
    /\ HasPayload(other)
    /\ PayloadBytes(other.payload) # PayloadBytes(request.payload)

\* Two header maps agree on a name: both lack it, or both hold it with the
\* same value.
AgreeOn(h1, h2, name) ==
    /\ Holds(h1, name) <=> Holds(h2, name)
    /\ (Holds(h1, name) /\ Holds(h2, name)) => h1.value[name] = h2.value[name]

Whitelisted(r) ==
    {r.whitelisted_headers.value[i] : i \in 1..Len(r.whitelisted_headers.value)}

\* C6: for a non-empty whitelist, two header maps that agree on every
\* whitelisted name give the same key, and two that differ on a whitelisted
\* name give different keys.
C6_HeaderSensitivity ==
    (pc = "headers varied"
        /\ request.whitelisted_headers.some
        /\ request.whitelisted_headers.value # <<>>) =>
        IF \A n \in Whitelisted(request) : AgreeOn(request.headers, other.headers, n)
        THEN other_call.key = call.key
        ELSE other_call.key # call.key

----------------------------------------------------------------------------
(* unique_key_to_request_id                                                *)

\* sha256(data).digest() for the encoded unique keys of the model.
Sha256Table ==
    (<<97>>
        :> <<
            202, 151, 129, 18, 202, 27, 189, 202, 250, 194, 49, 179, 154,
            35, 220, 77, 167, 134, 239, 248, 20, 124, 78, 114, 185, 128,
            119, 133, 175, 238, 72, 187>>)
    @@
    (<<104, 116, 116, 112, 58, 47, 47, 120, 47, 112>>
        :> <<
            5, 26, 246, 2, 117, 69, 27, 178, 107, 47, 13, 57, 200, 36, 233,
            229, 144, 174, 237, 133, 9, 77, 115, 234, 201, 24, 19, 28, 89,
            136, 164, 244>>)
    @@
    (<<104, 116, 116, 112, 58, 47, 47, 120, 47, 112, 124, 65, 117, 116, 104, 58, 116, 111, 107, 49>>
        :> <<
            4, 82, 34, 54, 53, 176, 86, 243, 207, 39, 53, 118, 44, 223,
            214, 205, 56, 74, 142, 246, 252, 21, 173, 251, 231, 47, 107,
            13, 121, 135, 71, 161>>)

sha256(data) == Sha256Table[data]

\* The base64 alphabet.
Base64Chars ==
    <<"A", "B", "C", "D", "E", "F", "G", "H", "I", "J", "K", "L", "M", "N",
      "O", "P", "Q", "R", "S", "T", "U", "V", "W", "X", "Y", "Z", "a", "b",
      "c", "d", "e", "f", "g", "h", "i", "j", "k", "l", "m", "n", "o", "p",
      "q", "r", "s", "t", "u", "v", "w", "x", "y", "z", "0", "1", "2", "3",
      "4", "5", "6", "7", "8", "9", "+", "/">>

\* b64encode(data): three bytes become four characters; one or two bytes left
\* over become two or three characters, padded with "=" to four.
RECURSIVE b64encode(_)
b64encode(data) ==
    IF data = <<>> THEN <<>>
    ELSE IF Len(data) = 1
    THEN <<Base64Chars[(data[1] \div 4) + 1],
           Base64Chars[((data[1] % 4) * 16) + 1], "=", "=">>
    ELSE IF Len(data) = 2
    THEN <<Base64Chars[(data[1] \div 4) + 1],
           Base64Chars[((data[1] % 4) * 16) + (data[2] \div 16) + 1],
           Base64Chars[((data[2] % 16) * 4) + 1], "=">>
    ELSE <<Base64Chars[(data[1] \div 4) + 1],
           Base64Chars[((data[1] % 4) * 16) + (data[2] \div 16) + 1],
           Base64Chars[((data[2] % 16) * 4) + (data[3] \div 64) + 1],
           Base64Chars[(data[3] % 64) + 1]>> \o b64encode(From(data, 4))

\* unique_key.encode('utf-8')
encode_key(s) == encode_utf8([i \in 1..Len(s) |-> ord[s[i]]])

\* re.sub(r'(\+|\/|=)', '', base64_encoded)
remove_unsafe(s) == SelectSeq(s, LAMBDA c : c \notin {"+", "/", "="})

\* url_safe_key[:request_id_length], for a length that is not negative
truncate(s, n) == SubSeq(s, 1, IF n < Len(s) THEN n ELSE Len(s))

unique_key_to_request_id(key, length) ==
    With(sha256(encode_key(key)), LAMBDA hashed_key :
    With(b64encode(hashed_key), LAMBDA base64_encoded :
    With(remove_unsafe(base64_encoded), LAMBDA url_safe_key :
        truncate(url_safe_key, length))))

----------------------------------------------------------------------------
(* Calls of unique_key_to_request_id                                       *)

MaxRequestIdLength == 50

IdKeys ==
    {<<"a">>,
     <<"h", "t", "t", "p", ":", "/", "/", "x", "/", "p">>,
     <<"h", "t", "t", "p", ":", "/", "/", "x", "/", "p", "|", "A", "u", "t", "h", ":", "t", "o", "k", "1">>}

InitRequestId ==
    /\ pc = "start"
    /\ unique_key \in IdKeys
    /\ request_id_length \in 0..MaxRequestIdLength
    /\ request_id = <<>>
    /\ url = <<>>
    /\ keep_url_fragment = FALSE
    /\ normalized = NotCalled
    /\ renormalized = NotCalled
    /\ variant = <<>>
    /\ variant_normalized = NotCalled
    /\ edits = 0
    /\ NoKeyCalls

\* unique_key_to_request_id(unique_key, request_id_length=request_id_length)
MakeRequestId ==
    /\ pc = "start"
    /\ request_id' = unique_key_to_request_id(unique_key, request_id_length)
    /\ pc' = "id made"
    /\ UNCHANGED <<unique_key, request_id_length, normVars, keyVars>>

NextRequestId == MakeRequestId

SpecRequestId == InitRequestId /\ [][NextRequestId]_vars

\* C8: the request ID has exactly the requested number of characters and
\* holds none of "+", "/", "=".
C8_ExactLength ==
    pc = "id made" =>
        /\ Len(request_id) = request_id_length
        /\ \A i \in 1..Len(request_id) : request_id[i] \notin {"+", "/", "="}

----------------------------------------------------------------------------
(* All calls                                                               *)

Init == InitNormalize \/ InitVariant \/ InitKey \/ InitRequestId

Next == NextNormalize \/ NextVariant \/ NextKey \/ NextRequestId

Spec == Init /\ [][Next]_vars

=============================================================================
